---- MODULE Spec2Model ----
(***************************************************************************)
(* ralph-mcp: the delta observation tools (ralph_changes, ralph_status,    *)
(* ralph_prd_read) over the shared bare repository, the requirements       *)
(* ledger prd.json, the worker containers and the agent log directory.     *)
(*                                                                         *)
(* Three specifications share this module:                                 *)
(*   SpecLedger  the derived story status, diffStories and the grouped     *)
(*               views, over ledgers that workers and editors mutate;      *)
(*   SpecRepo    the commit graph of the bare repository and the poll loop *)
(*               of ralph_changes over it;                                 *)
(*   SpecDelta   the handlers with their external lookups failing.         *)
(* A specification leaves the variables of the others at their initial     *)
(* value.                                                                  *)
(***************************************************************************)
EXTENDS Integers, Sequences, FiniteSets, TLC

VARIABLES
    baseline,   \* SpecLedger: prd.json as parsed at the caller's since commit
    ledger,     \* SpecLedger: prd.json as parsed at the head
    edits,      \* SpecLedger: ledger commits made so far
    out,        \* SpecLedger: the response to the last tool call since the last commit
    parent,     \* SpecRepo: commit -> set of parent commits
    refs,       \* SpecRepo: branch -> tip commit (0: the branch does not exist)
    since,      \* SpecRepo: the latest_commit the caller persisted (0: none)
    poll,       \* SpecRepo: the last two ralph_changes responses of the poll loop
    resp,       \* SpecDelta: the response of the last handler call
    shared,     \* SpecUpdate: the bare repo and the prd.json of each commit of its branch
    calls,      \* SpecUpdate: caller -> the state of its ralph_prd_update call
    heads,      \* SpecSession: branch of the bare repo -> its tip (prd.json, commit time)
    session     \* SpecSession: one editor's read, update and read again

vars == <<baseline, ledger, edits, out, parent, refs, since, poll, resp, shared,
          calls, heads, session>>

ledgerVars == <<baseline, ledger, edits, out>>
repoVars == <<parent, refs, since, poll>>
deltaVars == <<resp>>
updateVars == <<shared, calls>>
sessionVars == <<heads, session>>

(***************************************************************************)
(* Bounds of the model.                                                    *)
(***************************************************************************)
MaxStories == 2
MaxEdits == 3
MaxCommits == 4
MaxLogs == 8
MaxPushes == 2

(***************************************************************************)
(* JSON values of the ledger. A field that is absent from the document is  *)
(* "undefined"; verified is tri-state (absent, false, true) and claimed_by *)
(* is null or an agent name.                                               *)
(***************************************************************************)
StoryIds == {"US-1", "US-2", "US-3"}
\* A story keeps the title it was created with.
TitleOf(id) == "Title of " \o id
Titles == {TitleOf(id) : id \in StoryIds}
Priorities == {1, 2}
Agents == {"agent-1", "agent-2"}
Claimants == {"null"} \cup Agents
VerifiedVals == {"undefined", "false", "true"}

\* JavaScript truthiness of an encoded field value.
Truthy(v) == v \notin {"undefined", "null", "false", ""}

Story ==
    [id : StoryIds, title : Titles, priority : Priorities, passes : BOOLEAN,
     claimed_by : Claimants, verified : VerifiedVals]

\* A parsed document: the JavaScript null, or a PRD with its userStories.
NullPrd == [kind |-> "null"]
Prd(stories) == [kind |-> "prd", userStories |-> stories]
IsPrd(p) == p.kind = "prd"

(***************************************************************************)
(* changes.ts: storyStatus and diffStories.                                *)
(***************************************************************************)
storyStatus(s) ==
    IF s.passes THEN "done"
    ELSE IF Truthy(s.claimed_by) THEN "claimed by " \o s.claimed_by
    ELSE "available"

\* Map.set: the entry for k is created or overwritten.
MapSet(m, k, v) == [x \in (DOMAIN m) \cup {k} |-> IF x = k THEN v ELSE m[x]]

\* The loop `for (const s of oldPrd.userStories) oldMap.set(s.id, s)`.
RECURSIVE OldMapLoop(_, _, _)
OldMapLoop(m, stories, i) ==
    IF i > Len(stories) THEN m
    ELSE OldMapLoop(MapSet(m, stories[i].id, stories[i]), stories, i + 1)

\* The map of the baseline with its first story left out (a loop from index 1).
OldMapSkipsFirst(oldPrd) ==
    IF IsPrd(oldPrd) THEN OldMapLoop(<<>>, oldPrd.userStories, 2) ELSE <<>>

OldMap(oldPrd) ==
    IF IsPrd(oldPrd) THEN OldMapLoop(<<>>, oldPrd.userStories, 1) ELSE <<>>

\* prev ? storyStatus(prev) : "new", with prev = oldMap.get(s.id).
PrevStatus(oldMap, s) ==
    IF s.id \in DOMAIN oldMap THEN storyStatus(oldMap[s.id]) ELSE "new"

\* The iteration without its comparison: every story is pushed.
DiffStepAlways(transitions, oldMap, s) ==
    Append(transitions,
           [id |-> s.id, title |-> s.title,
            from |-> PrevStatus(oldMap, s), to |-> storyStatus(s)])

\* One iteration of the loop over newPrd.userStories: push when they differ.
DiffStep(transitions, oldMap, s) ==
    LET prevStatus == PrevStatus(oldMap, s)
        currStatus == storyStatus(s)
    IN  IF prevStatus # currStatus
        THEN Append(transitions,
                    [id |-> s.id, title |-> s.title,
                     from |-> prevStatus, to |-> currStatus])
        ELSE transitions

RECURSIVE DiffLoop(_, _, _, _)
DiffLoop(transitions, oldMap, stories, i) ==
    IF i > Len(stories) THEN transitions
    ELSE DiffLoop(DiffStep(transitions, oldMap, stories[i]), oldMap, stories, i + 1)

diffStories(oldPrd, newPrd) ==
    IF ~IsPrd(newPrd) THEN <<>>
    ELSE DiffLoop(<<>>, OldMap(oldPrd), newPrd.userStories, 1)

(***************************************************************************)
(* status.ts: the story board of ralph_status.                             *)
(***************************************************************************)
\* prd.userStories.some((s) => s.verified !== undefined)
hasVerifiers(stories) ==
    \E i \in 1..Len(stories) : stories[i].verified # "undefined"

EmptyBoard ==
    [available |-> <<>>, claimed |-> <<>>, verifying |-> <<>>, done |-> <<>>,
     progress |-> [unknown |-> TRUE]]

\* The iteration without the verification toggle: passes alone means done.
StatusStepNoToggle(board, story, hv) ==
    IF story.passes
    THEN [board EXCEPT !.done = Append(@, [id |-> story.id, title |-> story.title])]
    ELSE IF Truthy(story.claimed_by)
    THEN [board EXCEPT !.claimed =
              Append(@, [id |-> story.id, title |-> story.title,
                         claimed_by |-> story.claimed_by])]
    ELSE [board EXCEPT !.available =
              Append(@, [id |-> story.id, title |-> story.title,
                         priority |-> story.priority])]

\* One iteration of the loop over prdResult.userStories. The entries keep the
\* fields that identify the story; verified_by, verification_notes and
\* claimed_at are copied through by the code and are not modelled.
StatusStep(board, story, hv) ==
    IF story.passes /\ (Truthy(story.verified) \/ ~hv)
    THEN [board EXCEPT !.done = Append(@, [id |-> story.id, title |-> story.title])]
    ELSE IF story.passes /\ hv /\ ~Truthy(story.verified)
    THEN [board EXCEPT !.verifying =
              Append(@, [id |-> story.id, title |-> story.title])]
    ELSE IF Truthy(story.claimed_by)
    THEN [board EXCEPT !.claimed =
              Append(@, [id |-> story.id, title |-> story.title,
                         claimed_by |-> story.claimed_by])]
    ELSE [board EXCEPT !.available =
              Append(@, [id |-> story.id, title |-> story.title,
                         priority |-> story.priority])]

RECURSIVE StatusLoop(_, _, _, _)
StatusLoop(board, stories, hv, i) ==
    IF i > Len(stories) THEN board
    ELSE StatusLoop(StatusStep(board, stories[i], hv), stories, hv, i + 1)

IsBuilt(s) == s.passes
IsVerifiedBuilt(s) == s.passes /\ Truthy(s.verified)

\* The progress string, kept as the numbers it is formatted from.
StatusProgress(stories) ==
    LET builtCount == Len(SelectSeq(stories, IsBuilt))
        total == Len(stories)
    IN  IF hasVerifiers(stories)
        THEN [verified |-> Len(SelectSeq(stories, IsVerifiedBuilt)),
              built |-> builtCount, total |-> total]
        ELSE [complete |-> builtCount, total |-> total]

StatusStories(prdResult) ==
    IF ~IsPrd(prdResult) THEN EmptyBoard
    ELSE [StatusLoop(EmptyBoard, prdResult.userStories,
                     hasVerifiers(prdResult.userStories), 1)
            EXCEPT !.progress = StatusProgress(prdResult.userStories)]

(***************************************************************************)
(* prd-read.ts: the grouped view of ralph_prd_read.                        *)
(***************************************************************************)
\* Insert s after every element whose priority is not greater (stable).
RECURSIVE InsertByPriority(_, _)
InsertByPriority(sorted, s) ==
    IF sorted = <<>> THEN <<s>>
    ELSE IF Head(sorted).priority <= s.priority
         THEN <<Head(sorted)>> \o InsertByPriority(Tail(sorted), s)
         ELSE <<s>> \o sorted

\* Array.prototype.sort((a, b) => a.priority - b.priority), which is stable.
RECURSIVE SortByPriority(_)
SortByPriority(stories) ==
    IF stories = <<>> THEN <<>>
    ELSE InsertByPriority(SortByPriority(SubSeq(stories, 1, Len(stories) - 1)),
                          stories[Len(stories)])

IsAvailableRow(s) == ~s.passes /\ ~Truthy(s.claimed_by)
IsClaimedRow(s) == ~s.passes /\ Truthy(s.claimed_by)
IsVerifyingRow(s) == s.passes /\ ~Truthy(s.verified)
IsDoneRow(s) == s.passes /\ Truthy(s.verified)

\* The entries of the four groups (the free-text fields are copied through
\* by the code and are not modelled).
AvailableEntries(stories) ==
    [k \in 1..Len(stories) |->
        [id |-> stories[k].id, title |-> stories[k].title,
         priority |-> stories[k].priority]]

ClaimedEntries(stories) ==
    [k \in 1..Len(stories) |->
        [id |-> stories[k].id, title |-> stories[k].title,
         priority |-> stories[k].priority,
         claimed_by |-> stories[k].claimed_by]]

BriefEntries(stories) ==
    [k \in 1..Len(stories) |->
        [id |-> stories[k].id, title |-> stories[k].title]]

PrdReadResult(prd) ==
    IF ~IsPrd(prd) THEN [error |-> "No prd.json found"]
    ELSE
    LET stories == prd.userStories
        available == SortByPriority(SelectSeq(stories, IsAvailableRow))
        claimed == SelectSeq(stories, IsClaimedRow)
        verifying == SelectSeq(stories, IsVerifyingRow)
        done == SelectSeq(stories, IsDoneRow)
        hv == hasVerifiers(stories)
        effectiveDone == IF hv THEN done ELSE SelectSeq(stories, IsBuilt)
        effectiveVerifying == IF hv THEN verifying ELSE <<>>
    IN  [summary |->
             [total |-> Len(stories), available |-> Len(available),
              claimed |-> Len(claimed), verifying |-> Len(effectiveVerifying),
              done |-> Len(effectiveDone)],
         stories |->
             [available |-> AvailableEntries(available),
              claimed |-> ClaimedEntries(claimed),
              verifying |-> BriefEntries(effectiveVerifying),
              done |-> BriefEntries(effectiveDone)]]

(***************************************************************************)
(* The ledger as the tools find it. Workers claim, complete and verify     *)
(* stories and editors add, retitle and remove them; every such commit     *)
(* changes the document at the head. The caller of ralph_changes keeps a   *)
(* since commit, whose document is the baseline.                           *)
(***************************************************************************)
FreshStory(id, priority, verified) ==
    [id |-> id, title |-> TitleOf(id), priority |-> priority, passes |-> FALSE,
     claimed_by |-> "null", verified |-> verified]

NoCall == [tool |-> "none"]

IdsOf(stories) == {stories[i].id : i \in 1..Len(stories)}

LedgerIdle ==
    /\ baseline = NullPrd
    /\ ledger = NullPrd
    /\ edits = 0
    /\ out = NoCall

RepoIdle ==
    /\ parent = <<>>
    /\ refs = <<>>
    /\ since = 0
    /\ poll = <<>>

DeltaIdle == resp = NoCall

UpdateIdle ==
    /\ shared = [exists |-> FALSE, commits |-> <<>>]
    /\ calls = <<>>

SessionIdle ==
    /\ heads = <<>>
    /\ session = [pc |-> "none"]

\* The first commit may or may not carry a prd.json.
InitLedger ==
    /\ baseline = NullPrd
    /\ ledger \in {NullPrd, Prd(<<>>)}
    /\ edits = 0
    /\ out = NoCall
    /\ RepoIdle
    /\ DeltaIdle
    /\ UpdateIdle
    /\ SessionIdle

CanEdit == edits < MaxEdits /\ IsPrd(ledger)

Commit(stories) ==
    /\ ledger' = Prd(stories)
    /\ edits' = edits + 1
    /\ out' = NoCall
    /\ UNCHANGED <<baseline, repoVars, deltaVars, updateVars, sessionVars>>

\* A commit that creates prd.json, or one that deletes it.
CreateLedger ==
    /\ edits < MaxEdits
    /\ ledger = NullPrd
    /\ Commit(<<>>)

DeleteLedger ==
    /\ CanEdit
    /\ ledger' = NullPrd
    /\ edits' = edits + 1
    /\ out' = NoCall
    /\ UNCHANGED <<baseline, repoVars, deltaVars, updateVars, sessionVars>>

\* A story is appended; its verified field is written or left out.
AddStory ==
    /\ CanEdit
    /\ Len(ledger.userStories) < MaxStories
    /\ \E id \in StoryIds \ IdsOf(ledger.userStories),
          priority \in Priorities, verified \in {"undefined", "false"} :
          Commit(Append(ledger.userStories, FreshStory(id, priority, verified)))

RemoveStory ==
    /\ CanEdit
    /\ \E i \in 1..Len(ledger.userStories) :
          Commit(SubSeq(ledger.userStories, 1, i - 1)
                 \o SubSeq(ledger.userStories, i + 1, Len(ledger.userStories)))

\* A worker claims a story, or releases it.
ClaimStory ==
    /\ CanEdit
    /\ \E i \in 1..Len(ledger.userStories), c \in Claimants :
          /\ c # ledger.userStories[i].claimed_by
          /\ Commit([ledger.userStories EXCEPT ![i].claimed_by = c])

\* A worker completes a story, or a verifier sends it back.
SetPasses ==
    /\ CanEdit
    /\ \E i \in 1..Len(ledger.userStories) :
          Commit([ledger.userStories EXCEPT ![i].passes = ~@])

\* A verifier writes the verified field, or the field is dropped.
SetVerified ==
    /\ CanEdit
    /\ \E i \in 1..Len(ledger.userStories), v \in VerifiedVals :
          /\ v # ledger.userStories[i].verified
          /\ Commit([ledger.userStories EXCEPT ![i].verified = v])

\* The caller persists the head as its next since commit.
Checkpoint ==
    /\ baseline # ledger
    /\ baseline' = ledger
    /\ UNCHANGED <<ledger, edits, out, repoVars, deltaVars, updateVars, sessionVars>>

\* ralph_changes: story_transitions of the two documents.
DiffCall ==
    /\ out' = [tool |-> "changes", oldPrd |-> baseline, newPrd |-> ledger,
               story_transitions |-> diffStories(baseline, ledger)]
    /\ UNCHANGED <<baseline, ledger, edits, repoVars, deltaVars, updateVars, sessionVars>>

\* ralph_status: the story board of the document at the head.
StatusCall ==
    /\ out' = [tool |-> "status", prd |-> ledger,
               stories |-> StatusStories(ledger)]
    /\ UNCHANGED <<baseline, ledger, edits, repoVars, deltaVars, updateVars, sessionVars>>

\* ralph_prd_read: the grouped view of the document at the head.
PrdReadCall ==
    /\ out' = [tool |-> "prd_read", prd |-> ledger,
               result |-> PrdReadResult(ledger)]
    /\ UNCHANGED <<baseline, ledger, edits, repoVars, deltaVars, updateVars, sessionVars>>

NextLedger ==
    \/ CreateLedger
    \/ DeleteLedger
    \/ AddStory
    \/ RemoveStory
    \/ ClaimStory
    \/ SetPasses
    \/ SetVerified
    \/ Checkpoint
    \/ DiffCall
    \/ StatusCall
    \/ PrdReadCall

SpecLedger == InitLedger /\ [][NextLedger]_vars

(***************************************************************************)
(* Properties of the derived status, the diff and the grouped views        *)
(* (SpecLedger).                                                           *)
(***************************************************************************)
\* The derived status as the data model states it: the snapshot-wide toggle
\* inUse decides whether passes alone means done.
VerificationInUse(stories) ==
    \E i \in 1..Len(stories) : stories[i].verified \in {"false", "true"}

DerivedStatus(s, inUse) ==
    IF s.passes /\ (~inUse \/ s.verified = "true") THEN "done"
    ELSE IF s.passes THEN "verifying"
    ELSE IF s.claimed_by \in Agents THEN "claimed by " \o s.claimed_by
    ELSE "available"

\* The group a status string names.
StatusClass(status) ==
    IF status \in {"claimed by " \o a : a \in Agents} THEN "claimed" ELSE status

Groups == {"available", "claimed", "verifying", "done"}

InGroup(board, g, id) == \E k \in 1..Len(board[g]) : board[g][k].id = id

GroupsOf(board, id) == {g \in Groups : InGroup(board, g, id)}

HasStory(stories, id) == \E i \in 1..Len(stories) : stories[i].id = id

StoryWithId(stories, id) ==
    stories[CHOOSE i \in 1..Len(stories) : stories[i].id = id]

TransitionsFor(transitions, id) ==
    {k \in 1..Len(transitions) : transitions[k].id = id}

DiffAnswered == out.tool = "changes" /\ IsPrd(out.newPrd)

\* C2: every 'to' status that diffStories reports is the story's derived
\* status under the current snapshot's verification toggle; a story with
\* passes=true and verified=false in a snapshot that uses verification is
\* never reported with to = "done".
C2_ToIsDerivedStatus ==
    DiffAnswered =>
        \A k \in 1..Len(out.story_transitions) :
            LET t == out.story_transitions[k]
                stories == out.newPrd.userStories
            IN  t.to = DerivedStatus(StoryWithId(stories, t.id),
                                     VerificationInUse(stories))

\* C3: for every snapshot and every story in it, the status of diffStories,
\* the group of ralph_status and the group of ralph_prd_read denote the same
\* derived status.
C3_SameStatusEverywhere ==
    (out.tool \in {"changes", "status", "prd_read"}
        /\ IsPrd(IF out.tool = "changes" THEN out.newPrd ELSE out.prd)) =>
        LET prd == IF out.tool = "changes" THEN out.newPrd ELSE out.prd
            stories == prd.userStories
        IN  \A i \in 1..Len(stories) :
                /\ GroupsOf(StatusStories(prd), stories[i].id)
                       = {StatusClass(storyStatus(stories[i]))}
                /\ GroupsOf(PrdReadResult(prd).stories, stories[i].id)
                       = {StatusClass(storyStatus(stories[i]))}

ViewAnswered == out.tool \in {"status", "prd_read"} /\ IsPrd(out.prd)

ViewBoard == IF out.tool = "status" THEN out.stories ELSE out.result.stories

\* C4: in the grouped views the verification toggle is snapshot-wide. With no
\* verified field anywhere every built story is done and verifying is empty;
\* with a verified field on any story every built story that is not verified
\* is in verifying and not in done; and every story is in exactly one of the
\* four groups, whose sizes sum to the total.
C4_SnapshotWideToggle ==
    ViewAnswered =>
        LET stories == out.prd.userStories
            board == ViewBoard
            inUse == VerificationInUse(stories)
        IN  /\ ~inUse =>
                /\ board.verifying = <<>>
                /\ \A i \in 1..Len(stories) :
                      stories[i].passes => InGroup(board, "done", stories[i].id)
            /\ inUse =>
                \A i \in 1..Len(stories) :
                    (stories[i].passes /\ stories[i].verified # "true") =>
                        /\ InGroup(board, "verifying", stories[i].id)
                        /\ ~InGroup(board, "done", stories[i].id)
            /\ \A i \in 1..Len(stories) :
                  Cardinality(GroupsOf(board, stories[i].id)) = 1
            /\ Len(board.available) + Len(board.claimed)
                 + Len(board.verifying) + Len(board.done) = Len(stories)
            /\ out.tool = "prd_read" =>
                  LET summary == out.result.summary
                  IN  /\ summary.total = Len(stories)
                      /\ summary.available + summary.claimed
                           + summary.verifying + summary.done = summary.total

\* A view of a snapshot in which one story carries a verified field and
\* another, built, story carries none.
C4_Witness ==
    /\ out.tool = "status"
    /\ IsPrd(out.prd)
    /\ \E i, j \in 1..Len(out.prd.userStories) :
          /\ out.prd.userStories[i].verified = "false"
          /\ out.prd.userStories[j].verified = "undefined"
          /\ out.prd.userStories[j].passes
          /\ InGroup(out.stories, "verifying", out.prd.userStories[j].id)

\* C5: 'from' is the story's derived status in the baseline under the
\* baseline's own toggle and 'to' its derived status in the current snapshot
\* under the current's own toggle: a story of both snapshots has a transition
\* exactly when the two differ, and the transition carries them.
C5_IndependentToggles ==
    (DiffAnswered /\ IsPrd(out.oldPrd)) =>
        LET old == out.oldPrd.userStories
            new == out.newPrd.userStories
        IN  \A i \in 1..Len(new) :
                HasStory(old, new[i].id) =>
                    LET from == DerivedStatus(StoryWithId(old, new[i].id),
                                              VerificationInUse(old))
                        to == DerivedStatus(new[i], VerificationInUse(new))
                        ks == TransitionsFor(out.story_transitions, new[i].id)
                    IN  IF from = to THEN ks = {}
                        ELSE /\ Cardinality(ks) = 1
                             /\ \A k \in ks :
                                   /\ out.story_transitions[k].from = from
                                   /\ out.story_transitions[k].to = to

\* C6: diffStories of a snapshot against a content-equal copy of it reports
\* no transition.
C6_DiffNoOp ==
    (out.tool = "changes" /\ out.oldPrd = out.newPrd) =>
        out.story_transitions = <<>>

\* A diff of a two-story snapshot that uses verification against itself.
C6_Witness ==
    /\ out.tool = "changes"
    /\ IsPrd(out.newPrd)
    /\ out.oldPrd = out.newPrd
    /\ Len(out.newPrd.userStories) = 2
    /\ \E i \in 1..2 : out.newPrd.userStories[i].passes
    /\ VerificationInUse(out.newPrd.userStories)

\* C7: a story of the current snapshot whose identifier is not in the
\* baseline (or whose baseline is absent) always has a transition, with
\* from = "new" and to = its derived status under the current snapshot.
C7_NewStory ==
    DiffAnswered =>
        LET new == out.newPrd.userStories
        IN  \A i \in 1..Len(new) :
                (~IsPrd(out.oldPrd)
                     \/ ~HasStory(out.oldPrd.userStories, new[i].id)) =>
                    \E k \in 1..Len(out.story_transitions) :
                        /\ out.story_transitions[k].id = new[i].id
                        /\ out.story_transitions[k].from = "new"
                        /\ out.story_transitions[k].to
                             = DerivedStatus(new[i], VerificationInUse(new))

\* The status diffStories compares a story of the current snapshot against.
FromOf(oldPrd, s) ==
    IF IsPrd(oldPrd) /\ HasStory(oldPrd.userStories, s.id)
    THEN storyStatus(StoryWithId(oldPrd.userStories, s.id))
    ELSE "new"

\* The positions of the current snapshot whose story changed status.
ChangedPositions(oldPrd, new) ==
    {i \in 1..Len(new) : FromOf(oldPrd, new[i]) # storyStatus(new[i])}

\* C8: diffStories returns exactly one transition for each story of the
\* current snapshot whose from and to statuses differ and none for the
\* others, in the declaration order of the current snapshot; stories that are
\* only in the baseline produce none; an absent current snapshot gives the
\* empty list.
C8_ExactlyTheChanged ==
    out.tool = "changes" =>
        IF ~IsPrd(out.newPrd) THEN out.story_transitions = <<>>
        ELSE
        LET new == out.newPrd.userStories
            ts == out.story_transitions
            changed == ChangedPositions(out.oldPrd, new)
        IN  /\ Len(ts) = Cardinality(changed)
            /\ \A k \in 1..Len(ts) : ts[k].from # ts[k].to
            /\ \A i \in changed :
                  \E k \in 1..Len(ts) :
                      /\ ts[k].id = new[i].id
                      /\ ts[k].title = new[i].title
                      /\ ts[k].from = FromOf(out.oldPrd, new[i])
                      /\ ts[k].to = storyStatus(new[i])
                      /\ k = Cardinality({j \in changed : j <= i})
            /\ \A k \in 1..Len(ts) : HasStory(new, ts[k].id)

\* A diff against a baseline that holds both stories, in which the first
\* story is unchanged and the second changed.
C8_Witness ==
    /\ DiffAnswered
    /\ IsPrd(out.oldPrd)
    /\ Len(out.oldPrd.userStories) = 2
    /\ Len(out.newPrd.userStories) = 2
    /\ Len(out.story_transitions) = 1
    /\ out.story_transitions[1].id = out.newPrd.userStories[2].id

(***************************************************************************)
(* The bare repository .ralph/repo.git: commits are numbered in the order  *)
(* they are created, commit 1 is the root, HEAD is the symbolic ref of     *)
(* main, and workers push to working branches.                             *)
(***************************************************************************)
Branches == {"main", "ralph/a", "ralph/b"}
WorkBranches == Branches \ {"main"}

InitRepo ==
    /\ parent = <<{}>>
    /\ refs = [b \in Branches |-> IF b = "main" THEN 1 ELSE 0]
    /\ since = 0
    /\ poll = <<>>
    /\ LedgerIdle
    /\ DeltaIdle
    /\ UpdateIdle
    /\ SessionIdle

\* The commits reachable from a set of commits.
RECURSIVE Reachable(_)
Reachable(tips) ==
    LET ps == UNION {parent[c] : c \in tips}
    IN  IF ps \subseteq tips THEN tips ELSE Reachable(tips \cup ps)

\* git rev-parse HEAD
RevParseHead == refs["main"]

\* git rev-list --max-parents=0 HEAD, first line
RootOfHead ==
    CHOOSE c \in Reachable({RevParseHead}) : parent[c] = {}

\* The commits in the order git log lists them, newest first.
RECURSIVE NewestFirst(_)
NewestFirst(cs) ==
    IF cs = {} THEN <<>>
    ELSE LET newest == CHOOSE c \in cs : \A d \in cs : d <= c
         IN  <<[hash |-> newest]>> \o NewestFirst(cs \ {newest})

\* git log --oneline <sinceCommit>..HEAD, without --all.
GitLogSinceHead(sinceCommit) ==
    NewestFirst(Reachable({RevParseHead}) \ Reachable({sinceCommit}))

\* git log --oneline <sinceCommit>..HEAD --all: what HEAD and every ref
\* reach, without what sinceCommit reaches.
GitLogSinceAll(sinceCommit) ==
    LET tips == {RevParseHead} \cup ({refs[b] : b \in Branches} \ {0})
    IN  NewestFirst(Reachable(tips) \ Reachable({sinceCommit}))

NewCommit(parents) ==
    /\ Len(parent) < MaxCommits
    /\ parent' = Append(parent, parents)

\* A commit is pushed to main.
PushMain ==
    /\ NewCommit({refs["main"]})
    /\ refs' = [refs EXCEPT !["main"] = Len(parent) + 1]
    /\ UNCHANGED <<since, poll, ledgerVars, deltaVars, updateVars, sessionVars>>

\* A worker pushes a commit to its working branch, created from main.
PushWork ==
    \E b \in WorkBranches :
        /\ NewCommit({IF refs[b] = 0 THEN refs["main"] ELSE refs[b]})
        /\ refs' = [refs EXCEPT ![b] = Len(parent) + 1]
        /\ UNCHANGED <<since, poll, ledgerVars, deltaVars, updateVars, sessionVars>>

\* A working branch is merged into main by a merge commit.
MergeWork ==
    \E b \in WorkBranches :
        /\ refs[b] # 0
        /\ refs[b] \notin Reachable({refs["main"]})
        /\ NewCommit({refs["main"], refs[b]})
        /\ refs' = [refs EXCEPT !["main"] = Len(parent) + 1]
        /\ UNCHANGED <<since, poll, ledgerVars, deltaVars, updateVars, sessionVars>>

\* ralph_changes in the poll loop: the caller passes the latest_commit of its
\* previous call as since_commit (none on the first call) and keeps the new
\* one. commits_in_repo records how many commits the repository held.
Poll ==
    LET sinceCommit == IF since = 0 THEN RootOfHead ELSE since
        latestCommit == RevParseHead
        answer == [since_commit |-> sinceCommit,
                   latest_commit |-> latestCommit,
                   new_commits |-> GitLogSinceAll(sinceCommit),
                   commits_in_repo |-> Len(parent)]
    IN  /\ poll' = IF poll = <<>> THEN <<answer>> ELSE <<answer, poll[1]>>
        /\ since' = latestCommit
        /\ UNCHANGED <<parent, refs, ledgerVars, deltaVars, updateVars, sessionVars>>

NextRepo ==
    \/ PushMain
    \/ PushWork
    \/ MergeWork
    \/ Poll

SpecRepo == InitRepo /\ [][NextRepo]_vars

HashesOf(commits) == {commits[k].hash : k \in 1..Len(commits)}

\* C1: in the poll loop no commit is listed in new_commits of two consecutive
\* calls, and a call made when no commit was pushed since the previous call
\* lists none.
C1_MonotonicPolling ==
    Len(poll) = 2 =>
        /\ HashesOf(poll[1].new_commits) \cap HashesOf(poll[2].new_commits) = {}
        /\ poll[1].commits_in_repo = poll[2].commits_in_repo =>
              poll[1].new_commits = <<>>

(***************************************************************************)
(* exec.ts and the handlers with their external lookups. An exec either    *)
(* throws (the command cannot be started: Deno.Command.output rejects),    *)
(* or returns with success false, or returns with success true and the     *)
(* stdout the handler parses.                                              *)
(***************************************************************************)
ExecThrew == [threw |-> TRUE]
ExecFailed == [threw |-> FALSE, success |-> FALSE]
ExecOk(stdout) == [threw |-> FALSE, success |-> TRUE, stdout |-> stdout]

\* exec(...).catch(() => ({ success: false, stdout: "", stderr: "", code: 1 }))
Caught(result) == IF result.threw THEN ExecFailed ELSE result

\* What a function call ends with: a thrown error, or a returned value.
Thrown(error) == [threw |-> TRUE, error |-> error]
Returned(value) == [threw |-> FALSE, value |-> value]

\* The text of a prd.json: not JSON at all, or JSON with its parsed value.
NotJson == [json |-> FALSE]
Json(value) == [json |-> TRUE, value |-> value]

\* A parsed JSON value that is an object without a userStories list.
ObjectNoStories == [kind |-> "object"]

\* JSON.parse
JsonParse(text) ==
    IF text.json THEN Returned(text.value) ELSE Thrown("SyntaxError")

\* if (prd): null is falsy, every object is truthy.
DocTruthy(p) == p.kind # "null"

\* changes.ts readPrdAtCommit, from the outcome of git show <commit>:prd.json
readPrdAtCommit(show) ==
    IF show.threw THEN NullPrd
    ELSE IF ~show.success THEN NullPrd
    ELSE IF JsonParse(show.stdout).threw THEN NullPrd
    ELSE JsonParse(show.stdout).value

\* diffStories iterates oldPrd.userStories and newPrd.userStories: a truthy
\* document without the list makes the for-of throw a TypeError.
diffStoriesThrows(oldPrd, newPrd) ==
    /\ DocTruthy(newPrd)
    /\ \/ DocTruthy(oldPrd) /\ ~IsPrd(oldPrd)
       \/ ~IsPrd(newPrd)

(***************************************************************************)
(* changes.ts: scanNewLogs over the entries of agent_logs. An entry may    *)
(* vanish before it is stat-ed (statOk) or before it is read (readOk).     *)
(***************************************************************************)
SummaryLimit == 5
TailLines == 10

NoLogs == [new_count |-> 0, recent_summaries |-> <<>>]

\* The readDir loop: the files with the .log suffix modified after the
\* reference timestamp; a failing stat ends the scan.
RECURSIVE ScanLoop(_, _, _, _)
ScanLoop(newFiles, entries, sinceTimestamp, i) ==
    IF i > Len(entries) THEN Returned(newFiles)
    ELSE IF entries[i].isFile /\ entries[i].ext = ".log"
    THEN IF ~entries[i].statOk THEN Thrown("NotFound")
         ELSE IF entries[i].mtime > sinceTimestamp
         THEN ScanLoop(Append(newFiles, entries[i]), entries, sinceTimestamp, i + 1)
         ELSE ScanLoop(newFiles, entries, sinceTimestamp, i + 1)
    ELSE ScanLoop(newFiles, entries, sinceTimestamp, i + 1)

\* Insert f before the first element that is older (stable).
RECURSIVE InsertByMtime(_, _)
InsertByMtime(sorted, f) ==
    IF sorted = <<>> THEN <<f>>
    ELSE IF Head(sorted).mtime >= f.mtime
         THEN <<Head(sorted)>> \o InsertByMtime(Tail(sorted), f)
         ELSE <<f>> \o sorted

\* The files left in the order readDir gave them.
KeepOrder(files) == files

\* newFiles.sort((a, b) => b.mtime - a.mtime)
RECURSIVE SortByMtimeDesc(_)
SortByMtimeDesc(files) ==
    IF files = <<>> THEN <<>>
    ELSE InsertByMtime(SortByMtimeDesc(SubSeq(files, 1, Len(files) - 1)),
                       files[Len(files)])

\* content.split("\n").slice(-10): the lines are numbered 1..lines.
TailOf(lines) ==
    [k \in 1..(IF lines < TailLines THEN lines ELSE TailLines) |->
        (IF lines < TailLines THEN 0 ELSE lines - TailLines) + k]

\* A scan that lets the failure of readDir through.
scanNewLogsUncaught(logs, sinceTimestamp) ==
    IF ~logs.exists THEN Thrown("NotFound")
    ELSE Returned([new_count |-> Len(logs.entries), recent_summaries |-> <<>>])

scanNewLogs(logs, sinceTimestamp) ==
    IF ~logs.exists THEN Returned(NoLogs)
    ELSE
    LET scan == ScanLoop(<<>>, logs.entries, sinceTimestamp, 1)
    IN  IF scan.threw THEN Returned(NoLogs)
        ELSE
        LET sorted == SortByMtimeDesc(scan.value)
            top == SubSeq(sorted, 1,
                          IF Len(sorted) < SummaryLimit THEN Len(sorted)
                          ELSE SummaryLimit)
        IN  IF \E k \in 1..Len(top) : ~top[k].readOk
            THEN Thrown("NotFound")
            ELSE Returned(
                   [new_count |-> Len(scan.value),
                    recent_summaries |->
                        [k \in 1..Len(top) |->
                            [file |-> top[k].name,
                             last_lines |-> TailOf(top[k].lines)]]])

(***************************************************************************)
(* changes.ts: the containers that started after since_commit.             *)
(***************************************************************************)
\* running_for.match(/(\d+)\s*(second|minute|hour|day)/) on the uptime
\* strings docker ps prints.
UptimeMatch(running_for) ==
    CASE running_for = "45 seconds ago" -> [matched |-> TRUE, val |-> 45, unit |-> "second"]
      [] running_for = "90 seconds ago" -> [matched |-> TRUE, val |-> 90, unit |-> "second"]
      [] running_for = "2 minutes ago" -> [matched |-> TRUE, val |-> 2, unit |-> "minute"]
      [] running_for = "3 hours ago" -> [matched |-> TRUE, val |-> 3, unit |-> "hour"]
      [] running_for = "2 days ago" -> [matched |-> TRUE, val |-> 2, unit |-> "day"]
      [] OTHER -> [matched |-> FALSE]

UnitMs(unit) ==
    IF unit = "second" THEN 1000
    ELSE IF unit = "minute" THEN 60000
    ELSE IF unit = "hour" THEN 3600000
    ELSE 86400000

\* A filter that also flags a container whose uptime equals the window.
IsLikelyNewInclusive(c, now, sinceTimestamp) ==
    LET match == UptimeMatch(c.running_for)
    IN  IF ~match.matched THEN FALSE
        ELSE match.val * UnitMs(match.unit) <= now - sinceTimestamp

IsLikelyNew(c, now, sinceTimestamp) ==
    LET match == UptimeMatch(c.running_for)
    IN  IF ~match.matched THEN FALSE
        ELSE match.val * UnitMs(match.unit) < now - sinceTimestamp

RECURSIVE LikelyNew(_, _, _)
LikelyNew(containers, now, sinceTimestamp) ==
    IF containers = <<>> THEN <<>>
    ELSE (IF IsLikelyNew(Head(containers), now, sinceTimestamp)
          THEN <<Head(containers).name>> ELSE <<>>)
         \o LikelyNew(Tail(containers), now, sinceTimestamp)

(***************************************************************************)
(* changes.ts: changesTool.handler.                                        *)
(***************************************************************************)
ChangesHandler(args, env) ==
    IF args.since_commit = "" /\ env.revList.threw THEN Thrown("spawn git")
    ELSE IF env.revParse.threw THEN Thrown("spawn git")
    ELSE IF env.showTs.threw THEN Thrown("spawn git")
    ELSE
    LET sinceCommit ==
            IF args.since_commit # "" THEN args.since_commit
            ELSE IF env.revList.success THEN env.revList.stdout
            ELSE "HEAD"
        latestCommit ==
            IF env.revParse.success THEN env.revParse.stdout ELSE "unknown"
        sinceTimestamp ==
            IF env.showTs.success THEN env.showTs.stdout * 1000 ELSE 0
        commitsResult == Caught(env.gitLog)
        oldPrd == readPrdAtCommit(env.sinceDoc)
        newPrd == readPrdAtCommit(env.headDoc)
        dockerResult == Caught(env.docker)
        logEntries == scanNewLogs(env.logs, sinceTimestamp)
        newCommits ==
            IF commitsResult.success THEN commitsResult.stdout ELSE <<>>
        containers ==
            IF dockerResult.success THEN dockerResult.stdout ELSE <<>>
    IN  IF logEntries.threw THEN Thrown(logEntries.error)
        ELSE IF diffStoriesThrows(oldPrd, newPrd) THEN Thrown("TypeError")
        ELSE Returned(
               [project |-> args.project_dir,
                since_commit |-> sinceCommit,
                latest_commit |-> latestCommit,
                new_commits |-> newCommits,
                story_transitions |-> diffStories(oldPrd, newPrd),
                new_log_entries |-> logEntries.value,
                containers |->
                    [current |-> containers,
                     likely_new |->
                         LikelyNew(containers, env.now, sinceTimestamp)]])

\* server.ts registerTool: a thrown handler becomes an isError response.
ToolResponse(outcome) ==
    IF outcome.threw
    THEN [isError |-> TRUE, text |-> [error |-> outcome.error]]
    ELSE [isError |-> FALSE, text |-> outcome.value]

(***************************************************************************)
(* exec.ts resolveLatestPrdRef and resolveLatestCommit; prd-read.ts        *)
(* readPrd, which status.ts repeats as readPrdFromBareRepo.                *)
(***************************************************************************)
\* From the outcome of git log --all -1 --format=%H -- prd.json; a throwing
\* exec throws through.
resolveLatestPrdRef(result) ==
    IF result.threw THEN Thrown("spawn git")
    ELSE IF result.success /\ result.stdout # "" THEN Returned(result.stdout)
    ELSE Returned("HEAD")

\* resolveLatestCommit(bareRepo).catch(() => "unknown")
resolveLatestCommit(result) ==
    IF result.threw THEN "unknown"
    ELSE IF result.success /\ result.stdout # "" THEN result.stdout
    ELSE "unknown"

\* The first try block: the ledger at the resolved ref of the bare repo.
\* env.show is the outcome of git show <ref>:prd.json for the resolved ref.
\* Deno.stat, either exec or JSON.parse may throw into the catch; a git show
\* that fails falls through as well.
ReadPrdFromRepo(env) ==
    IF ~env.repoExists THEN [found |-> FALSE]
    ELSE IF resolveLatestPrdRef(env.resolveRef).threw THEN [found |-> FALSE]
    ELSE IF env.show.threw THEN [found |-> FALSE]
    ELSE IF ~env.show.success THEN [found |-> FALSE]
    ELSE IF JsonParse(env.show.stdout).threw THEN [found |-> FALSE]
    ELSE [found |-> TRUE, value |-> JsonParse(env.show.stdout).value]

\* The second try block: prd.json in the project directory.
ReadPrdFromWorkDir(env) ==
    IF ~env.workFile.exists THEN NullPrd
    ELSE IF JsonParse(env.workFile.text).threw THEN NullPrd
    ELSE JsonParse(env.workFile.text).value

\* A read that prefers the working directory.
readPrdWorkDirFirst(env) ==
    IF env.workFile.exists /\ ~JsonParse(env.workFile.text).threw
    THEN JsonParse(env.workFile.text).value
    ELSE IF ReadPrdFromRepo(env).found THEN ReadPrdFromRepo(env).value
    ELSE NullPrd

readPrd(env) ==
    IF ReadPrdFromRepo(env).found THEN ReadPrdFromRepo(env).value
    ELSE ReadPrdFromWorkDir(env)

(***************************************************************************)
(* status.ts statusTool.handler and prd-read.ts prdReadTool.handler.       *)
(***************************************************************************)
StatusHandler(args, env) ==
    IF env.docker.threw THEN Thrown("spawn docker")
    ELSE IF env.gitLog.threw /\ env.gitLogWork.threw THEN Thrown("spawn git")
    ELSE
    LET prdResult == readPrd(env)
        commitsResult == IF env.gitLog.threw THEN env.gitLogWork ELSE env.gitLog
        containers == IF env.docker.success THEN env.docker.stdout ELSE <<>>
    IN  IF DocTruthy(prdResult) /\ ~IsPrd(prdResult) THEN Thrown("TypeError")
        ELSE Returned(
               [project |-> args.project_dir,
                latest_commit |-> resolveLatestCommit(env.latest),
                stop_requested |-> env.stopFile = "non-empty",
                containers |-> containers,
                stories |-> StatusStories(prdResult),
                recent_commits |->
                    IF commitsResult.success THEN commitsResult.stdout
                    ELSE <<>>])

PrdReadHandler(args, env) ==
    LET prd == readPrd(env)
    IN  IF DocTruthy(prd) /\ ~IsPrd(prd) THEN Thrown("TypeError")
        ELSE Returned(PrdReadResult(prd))

(***************************************************************************)
(* What the handlers may find outside.                                     *)
(***************************************************************************)
ProjectDirs == {"/project"}

BuiltStory == [FreshStory("US-1", 1, "undefined") EXCEPT !.passes = TRUE]

DocTexts ==
    {NotJson, Json(NullPrd), Json(ObjectNoStories),
     Json(Prd(<<FreshStory("US-1", 1, "undefined")>>)),
     Json(Prd(<<BuiltStory>>))}

\* Deno.Command rejects when the command cannot be started (no such binary,
\* no such cwd), and then it does so for every such command of the call;
\* otherwise the command exits with a failure or prints one of the values.
Outcomes(spawns, values) ==
    IF spawns THEN {ExecFailed} \cup {ExecOk(v) : v \in values}
    ELSE {ExecThrew}

CommitLines == <<[hash |-> "c3", message |-> "work"], [hash |-> "c2", message |-> "claim"]>>

ContainerRows ==
    <<[name |-> "ralph-agent-1", status |-> "Up 45 seconds",
       running_for |-> "45 seconds ago"],
      [name |-> "ralph-agent-2", status |-> "Up 90 seconds",
       running_for |-> "90 seconds ago"],
      [name |-> "ralph-agent-3", status |-> "Up About a minute",
       running_for |-> "About a minute ago"]>>

DockerOutcomes == Outcomes(FALSE, {}) \cup Outcomes(TRUE, {ContainerRows})

LogFile(name, ext, mtime, lines, statOk, readOk) ==
    [name |-> name, isFile |-> TRUE, ext |-> ext, mtime |-> mtime,
     lines |-> lines, statOk |-> statOk, readOk |-> readOk]

\* agent_logs: missing, empty, or holding files of which one may vanish
\* before it is stat-ed or before it is read.
LogDirs ==
    {[exists |-> FALSE, entries |-> <<>>],
     [exists |-> TRUE, entries |-> <<>>]}
    \cup
    {[exists |-> TRUE,
      entries |-> <<LogFile("agent-1.log", ".log", 50000, 3, TRUE, TRUE),
                    LogFile("agent-2.log", ".log", 70000, 12, statOk, readOk),
                    LogFile("notes.txt", ".txt", 90000, 2, TRUE, TRUE)>>] :
        statOk \in BOOLEAN, readOk \in BOOLEAN}

ChangesArgs == [project_dir : ProjectDirs, since_commit : {"", "c1"}]

\* The bare repo may go away after the commits were resolved: the commands of
\* the parallel stage may be the first that cannot be started.
ChangesEnvs ==
    UNION {[revList : Outcomes(git, {"c0"}), revParse : Outcomes(git, {"c3"}),
            showTs : Outcomes(git, {60}),
            gitLog : Outcomes(git, {CommitLines}) \cup Outcomes(FALSE, {}),
            sinceDoc : Outcomes(git, DocTexts) \cup Outcomes(FALSE, {}),
            headDoc : Outcomes(git, DocTexts) \cup Outcomes(FALSE, {}),
            docker : DockerOutcomes, logs : LogDirs, now : {120000}] :
           git \in BOOLEAN}

WorkFiles ==
    {[exists |-> FALSE]} \cup {[exists |-> TRUE, text |-> text] : text \in DocTexts}

StatusArgs == [project_dir : ProjectDirs]

\* repoExists: .ralph/repo.git is there. A git command whose cwd is the bare
\* repo cannot be started without it.
ReadEnvs ==
    UNION {[repoExists : {repo}, resolveRef : Outcomes(git /\ repo, {"c3"}),
            show : Outcomes(git /\ repo, DocTexts), workFile : WorkFiles] :
           git \in BOOLEAN, repo \in BOOLEAN}

\* The lookups of ralph_status: the ledger read and the others.
StatusEnvs ==
    UNION {[repoExists : {repo}, resolveRef : Outcomes(git /\ repo, {"c3"}),
            show : Outcomes(git /\ repo, DocTexts), workFile : WorkFiles,
            docker : DockerOutcomes,
            gitLog : Outcomes(git /\ repo, {CommitLines}),
            gitLogWork : Outcomes(git, {CommitLines}),
            latest : Outcomes(git /\ repo, {"c3"}),
            stopFile : {"absent", "non-empty"}] :
           git \in BOOLEAN, repo \in BOOLEAN}

InitDelta ==
    /\ resp = NoCall
    /\ LedgerIdle
    /\ RepoIdle
    /\ UpdateIdle
    /\ SessionIdle

\* The server answers one request at a time; the handlers keep no state
\* between calls.
ChangesRequest ==
    /\ resp = NoCall
    /\ \E args \in ChangesArgs, env \in ChangesEnvs :
        /\ resp' = [tool |-> "changes", args |-> args, env |-> env,
                    response |-> ToolResponse(ChangesHandler(args, env))]
        /\ UNCHANGED <<ledgerVars, repoVars, updateVars, sessionVars>>

StatusRequest ==
    /\ resp = NoCall
    /\ \E args \in StatusArgs, env \in StatusEnvs :
        /\ resp' = [tool |-> "status", args |-> args, env |-> env,
                    response |-> ToolResponse(StatusHandler(args, env))]
        /\ UNCHANGED <<ledgerVars, repoVars, updateVars, sessionVars>>

PrdReadRequest ==
    /\ resp = NoCall
    /\ \E args \in StatusArgs, env \in ReadEnvs :
        /\ resp' = [tool |-> "prd_read", args |-> args, env |-> env,
                    response |-> ToolResponse(PrdReadHandler(args, env))]
        /\ UNCHANGED <<ledgerVars, repoVars, updateVars, sessionVars>>

\* readPrd called on its own, as both ledger-reading handlers call it.
ReadLedgerCall ==
    /\ resp = NoCall
    /\ \E env \in ReadEnvs :
        /\ resp' = [tool |-> "readPrd", env |-> env,
                    outcome |-> Returned(readPrd(env))]
        /\ UNCHANGED <<ledgerVars, repoVars, updateVars, sessionVars>>

\* What git log --all -1 --format=%H -- prd.json may give: it cannot be
\* started (no bare repo at the cwd), it fails, it prints nothing (no commit
\* touched prd.json), or it prints the commit.
RefOutcomes == Outcomes(FALSE, {}) \cup Outcomes(TRUE, {"", "c3"})

\* resolveLatestPrdRef called on its own.
ResolveRefCall ==
    /\ resp = NoCall
    /\ \E result \in RefOutcomes :
        /\ resp' = [tool |-> "resolveLatestPrdRef", result |-> result,
                    outcome |-> resolveLatestPrdRef(result)]
        /\ UNCHANGED <<ledgerVars, repoVars, updateVars, sessionVars>>

\* The uptime strings docker ps prints, the instants of the call and the
\* reference timestamps, in milliseconds.
UptimeTexts ==
    {"45 seconds ago", "90 seconds ago", "2 minutes ago", "3 hours ago",
     "2 days ago", "About a minute ago", "2 weeks ago"}
Instants == {90000, 120000, 10800000, 172800000}
SinceTimestamps == {0, 60000}

\* The likelyNew filter of changesTool.handler applied to one container.
FreshnessCall ==
    /\ resp = NoCall
    /\ \E text \in UptimeTexts, now \in Instants, ts \in SinceTimestamps :
        LET c == [name |-> "ralph-agent-1", status |-> "Up",
                  running_for |-> text]
        IN  /\ resp' = [tool |-> "likelyNew", container |-> c, now |-> now,
                        sinceTimestamp |-> ts,
                        likely_new |-> LikelyNew(<<c>>, now, ts)]
            /\ UNCHANGED <<ledgerVars, repoVars, updateVars, sessionVars>>

\* agent_logs with up to MaxLogs entries: the second is not a log, the k-th
\* holds 3k lines, and each was modified at, or after, the reference
\* timestamp.
LogMtimes == {60000, 70000, 80000}

LogEntries(mtimes) ==
    [k \in 1..Len(mtimes) |->
        LET ext == IF k = 2 THEN ".txt" ELSE ".log"
        IN  LogFile("agent-" \o ToString(k) \o ext, ext, mtimes[k], 3 * k,
                    TRUE, TRUE)]

\* scanNewLogs called on its own, with the reference timestamp 60000.
ScanCall ==
    /\ resp = NoCall
    /\ \E n \in 0..MaxLogs :
        \E mtimes \in [1..n -> LogMtimes] :
            LET logs == [exists |-> TRUE, entries |-> LogEntries(mtimes)]
            IN  /\ resp' = [tool |-> "scanNewLogs", logs |-> logs,
                            sinceTimestamp |-> 60000,
                            outcome |-> scanNewLogs(logs, 60000)]
                /\ UNCHANGED <<ledgerVars, repoVars, updateVars, sessionVars>>

\* The caller has read the response.
ResponseRead ==
    /\ resp # NoCall
    /\ resp' = NoCall
    /\ UNCHANGED <<ledgerVars, repoVars, updateVars, sessionVars>>

NextDelta ==
    \/ ChangesRequest
    \/ StatusRequest
    \/ PrdReadRequest
    \/ ReadLedgerCall
    \/ ResolveRefCall
    \/ FreshnessCall
    \/ ScanCall
    \/ ResponseRead

SpecDelta == InitDelta /\ [][NextDelta]_vars

(***************************************************************************)
(* Fault isolation and malformed ledgers.                                  *)
(***************************************************************************)
\* The call got past resolving since_commit, latest_commit and the reference
\* timestamp.
Resolved(call) ==
    /\ call.args.since_commit = "" => ~call.env.revList.threw
    /\ ~call.env.revParse.threw
    /\ ~call.env.showTs.threw

\* A lookup command failed: it could not be started or it exited non-zero.
LookupFailed(outcome) == outcome.threw \/ ~outcome.success

\* git show printed a document that has not the shape of a ledger.
Malformed(outcome) ==
    /\ ~LookupFailed(outcome)
    /\ \/ ~outcome.stdout.json
       \/ ~IsPrd(outcome.stdout.value)

\* The ledger a git show stands for: absent when the lookup failed.
LedgerOf(outcome) ==
    IF LookupFailed(outcome) THEN NullPrd ELSE outcome.stdout.value

\* The reference timestamp of a resolved call, in milliseconds.
SinceMs(call) ==
    IF call.env.showTs.success THEN call.env.showTs.stdout * 1000 ELSE 0

\* A log file that the scan lists as new has gone when it is stat-ed or read.
LogVanished(call) ==
    \E k \in 1..Len(call.env.logs.entries) :
        LET f == call.env.logs.entries[k]
        IN  /\ f.ext = ".log"
            /\ ~f.statOk \/ (f.mtime > SinceMs(call) /\ ~f.readOk)

\* C9: in a computeDelta call whose commits were resolved and whose ledgers
\* are well-formed, no failure of one of the five lookups fails the call:
\* the failed lookup gives its neutral value (no commits, an absent ledger,
\* no containers, no new log entries) and the others give their results.
C9_FaultIsolation ==
    (/\ resp.tool = "changes"
     /\ Resolved(resp)
     /\ ~Malformed(resp.env.sinceDoc)
     /\ ~Malformed(resp.env.headDoc))
    => /\ ~resp.response.isError
       /\ resp.response.text.new_commits =
              (IF LookupFailed(resp.env.gitLog) THEN <<>>
               ELSE resp.env.gitLog.stdout)
       /\ resp.response.text.story_transitions =
              diffStories(LedgerOf(resp.env.sinceDoc), LedgerOf(resp.env.headDoc))
       /\ resp.response.text.containers.current =
              (IF LookupFailed(resp.env.docker) THEN <<>>
               ELSE resp.env.docker.stdout)
       /\ LogVanished(resp) => resp.response.text.new_log_entries = NoLogs

\* The same lookup seen as the one of an absent ledger.
AsAbsent(outcome) == IF Malformed(outcome) THEN ExecFailed ELSE outcome

\* The same file seen as a missing one when it holds no ledger.
AsMissing(file) ==
    IF file.exists /\ (~file.text.json \/ ~IsPrd(file.text.value))
    THEN [exists |-> FALSE]
    ELSE file

\* C10: a ledger document that is not valid JSON, or is valid JSON without a
\* userStories list, is read as an absent ledger: computeDelta, ralph_status
\* and ralph_prd_read answer what they answer when that ledger is not there,
\* and a malformed ledger alone never fails the call.
C10_MalformedAsAbsent ==
    /\ resp.tool = "changes" =>
          resp.response =
              ToolResponse(ChangesHandler(resp.args,
                  [resp.env EXCEPT !.sinceDoc = AsAbsent(@),
                                   !.headDoc = AsAbsent(@)]))
    /\ resp.tool = "status" =>
          resp.response =
              ToolResponse(StatusHandler(resp.args,
                  [resp.env EXCEPT !.show = AsAbsent(@),
                                   !.workFile = AsMissing(@)]))
    /\ resp.tool = "prd_read" =>
          resp.response =
              ToolResponse(PrdReadHandler(resp.args,
                  [resp.env EXCEPT !.show = AsAbsent(@),
                                   !.workFile = AsMissing(@)]))

(***************************************************************************)
(* The ledger read and the ref resolution.                                 *)
(***************************************************************************)
\* The attempt in the bare repo gave a document: the repo is there, the ref
\* resolution did not throw, git show printed prd.json and it parsed.
RepoAttemptSucceeds(env) ==
    /\ env.repoExists
    /\ ~env.resolveRef.threw
    /\ ~LookupFailed(env.show)
    /\ env.show.stdout.json

\* prd.json of the working directory can be read and parses.
WorkDirAttemptSucceeds(env) ==
    /\ env.workFile.exists
    /\ env.workFile.text.json

\* C11: readPrd returns the ledger of the bare repo when that attempt
\* succeeds; only when it fails, for whatever reason, the prd.json of the
\* working directory; and null when both fail. It never throws.
C11_ReadOrder ==
    resp.tool = "readPrd" =>
        /\ ~resp.outcome.threw
        /\ resp.outcome.value =
              (IF RepoAttemptSucceeds(resp.env)
               THEN resp.env.show.stdout.value
               ELSE IF WorkDirAttemptSucceeds(resp.env)
               THEN resp.env.workFile.text.value
               ELSE NullPrd)

\* The repo holds one ledger, the working directory another: the repo's is
\* returned.
C11_Witness ==
    /\ resp.tool = "readPrd"
    /\ RepoAttemptSucceeds(resp.env)
    /\ WorkDirAttemptSucceeds(resp.env)
    /\ IsPrd(resp.env.show.stdout.value)
    /\ IsPrd(resp.env.workFile.text.value)
    /\ resp.env.show.stdout.value # resp.env.workFile.text.value
    /\ resp.outcome.value = resp.env.show.stdout.value

\* C12: resolveLatestPrdRef returns the commit the lookup printed, and HEAD
\* when the lookup printed none or failed for any reason, a command that
\* cannot be started included; it never throws.
C12_RefNeverThrows ==
    resp.tool = "resolveLatestPrdRef" =>
        /\ ~resp.outcome.threw
        /\ resp.outcome.value =
              (IF ~LookupFailed(resp.result) /\ resp.result.stdout # ""
               THEN resp.result.stdout
               ELSE "HEAD")

(***************************************************************************)
(* Resolution of since_commit, latest_commit and the reference timestamp.  *)
(***************************************************************************)
\* Every log file of the call can be stat-ed and read.
LogsReadable(call) ==
    \A k \in 1..Len(call.env.logs.entries) :
        call.env.logs.entries[k].statOk /\ call.env.logs.entries[k].readOk

\* The number of .log files of the call modified after the timestamp.
NewLogCount(call, sinceTimestamp) ==
    Cardinality({k \in 1..Len(call.env.logs.entries) :
                    /\ call.env.logs.entries[k].ext = ".log"
                    /\ call.env.logs.entries[k].mtime > sinceTimestamp})

\* C13: a computeDelta call whose ledgers are well-formed and whose logs are
\* readable returns a result document whatever the three resolution lookups
\* do: an omitted since_commit becomes the root commit, or the default when
\* the root cannot be looked up; latest_commit becomes the default when the
\* head cannot be resolved; the reference timestamp is zero when the
\* timestamp of since_commit cannot be looked up.
C13_ResolutionNonFatal ==
    (/\ resp.tool = "changes"
     /\ ~Malformed(resp.env.sinceDoc)
     /\ ~Malformed(resp.env.headDoc)
     /\ LogsReadable(resp))
    => /\ ~resp.response.isError
       /\ resp.response.text.since_commit =
              (IF resp.args.since_commit # "" THEN resp.args.since_commit
               ELSE IF LookupFailed(resp.env.revList) THEN "HEAD"
               ELSE resp.env.revList.stdout)
       /\ resp.response.text.latest_commit =
              (IF LookupFailed(resp.env.revParse) THEN "unknown"
               ELSE resp.env.revParse.stdout)
       /\ LookupFailed(resp.env.showTs) /\ resp.env.logs.exists =>
              resp.response.text.new_log_entries.new_count = NewLogCount(resp, 0)

(***************************************************************************)
(* The commit range.                                                       *)
(***************************************************************************)
\* c is an ancestor of d or d itself: there is a chain of parents from d
\* down to c. Commits are numbered in creation order, so a parent has a
\* smaller number than its child.
RECURSIVE IsAncestor(_, _)
IsAncestor(c, d) ==
    \/ c = d
    \/ c < d /\ \E p \in parent[d] : IsAncestor(c, p)

\* The tips of all branches that exist.
BranchTips == {refs[b] : b \in Branches} \ {0}

\* The last answer describes the repository as it is now: every push adds a
\* commit.
AnswerIsCurrent ==
    /\ poll # <<>>
    /\ poll[1].commits_in_repo = Len(parent)

StatedUptimeMs(text) ==
    CASE text = "45 seconds ago" -> 45 * 1000
      [] text = "90 seconds ago" -> 90 * 1000
      [] text = "2 minutes ago" -> 2 * 60000
      [] text = "3 hours ago" -> 3 * 3600000
      [] text = "2 days ago" -> 2 * 86400000
      [] text = "About a minute ago" -> -1
      [] text = "2 weeks ago" -> -1

\* C15: a container is flagged in likely_new iff its uptime string states an
\* uptime strictly less than the time elapsed since the reference timestamp;
\* an uptime equal to it is not flagged, and an uptime string without the
\* pattern is not flagged.
C15_Freshness ==
    resp.tool = "likelyNew" =>
        LET uptime == StatedUptimeMs(resp.container.running_for)
            elapsed == resp.now - resp.sinceTimestamp
        IN  resp.likely_new =
              (IF uptime >= 0 /\ uptime < elapsed
               THEN <<resp.container.name>> ELSE <<>>)

\* A container whose uptime equals the elapsed time was not flagged.
C15_Witness ==
    /\ resp.tool = "likelyNew"
    /\ StatedUptimeMs(resp.container.running_for) = resp.now - resp.sinceTimestamp
    /\ resp.likely_new = <<>>

(***************************************************************************)
(* The log scan.                                                           *)
(***************************************************************************)
\* The positions of the entries that qualify: .log files modified strictly
\* after the reference timestamp.
Qualifying(call) ==
    {k \in 1..Len(call.logs.entries) :
        /\ call.logs.entries[k].ext = ".log"
        /\ call.logs.entries[k].mtime > call.sinceTimestamp}

\* The entry of the scanned directory with the name.
EntryNamed(call, name) ==
    CHOOSE e \in {call.logs.entries[k] : k \in 1..Len(call.logs.entries)} :
        e.name = name

\* C16: new_count is the number of .log files modified strictly after the
\* reference timestamp, however many; recent_summaries holds min(5,
\* new_count) of them, each once: the most recently modified ones, newest
\* first, each with the last 10 lines of its file or all of them when it
\* has fewer.
C16_LogScanBounds ==
    resp.tool = "scanNewLogs" =>
        LET q == Qualifying(resp)
            r == resp.outcome.value
            s == r.recent_summaries
            listed == {s[j].file : j \in 1..Len(s)}
        IN  /\ ~resp.outcome.threw
            /\ r.new_count = Cardinality(q)
            /\ Len(s) = (IF Cardinality(q) < 5 THEN Cardinality(q) ELSE 5)
            /\ Cardinality(listed) = Len(s)
            /\ listed \subseteq {resp.logs.entries[k].name : k \in q}
            /\ \A i, j \in 1..Len(s) :
                  i < j => EntryNamed(resp, s[i].file).mtime
                             >= EntryNamed(resp, s[j].file).mtime
            /\ \A k \in q : \A j \in 1..Len(s) :
                  resp.logs.entries[k].name \notin listed =>
                      resp.logs.entries[k].mtime <= EntryNamed(resp, s[j].file).mtime
            /\ \A j \in 1..Len(s) :
                  LET lines == EntryNamed(resp, s[j].file).lines
                      kept == IF lines < 10 THEN lines ELSE 10
                  IN  /\ Len(s[j].last_lines) = kept
                      /\ \A n \in 1..kept :
                            s[j].last_lines[n] = lines - kept + n

\* Six files qualify, a seventh was modified exactly at the reference
\* timestamp: six are counted and five are summarised.
C16_Witness ==
    /\ resp.tool = "scanNewLogs"
    /\ resp.outcome.value.new_count = 6
    /\ Len(resp.outcome.value.recent_summaries) = 5
    /\ \E k \in 1..Len(resp.logs.entries) :
          /\ resp.logs.entries[k].ext = ".log"
          /\ resp.logs.entries[k].mtime = resp.sinceTimestamp

\* C17: when agent_logs does not exist or cannot be enumerated, a
\* computeDelta call that resolved its commits and read well-formed ledgers
\* does not fail: it reports {new_count: 0, recent_summaries: []} in
\* new_log_entries, next to the commits and containers it found.
C17_NoLogDirIsNormal ==
    (/\ resp.tool = "changes"
     /\ ~resp.env.logs.exists
     /\ Resolved(resp)
     /\ ~Malformed(resp.env.sinceDoc)
     /\ ~Malformed(resp.env.headDoc))
    => /\ ~resp.response.isError
       /\ resp.response.text.new_log_entries = NoLogs
       /\ resp.response.text.new_commits =
              (IF LookupFailed(resp.env.gitLog) THEN <<>>
               ELSE resp.env.gitLog.stdout)
       /\ resp.response.text.containers.current =
              (IF LookupFailed(resp.env.docker) THEN <<>>
               ELSE resp.env.docker.stdout)

\* A call without agent_logs that reported commits and containers.
C17_Witness ==
    /\ resp.tool = "changes"
    /\ ~resp.env.logs.exists
    /\ ~resp.response.isError
    /\ resp.response.text.new_log_entries = NoLogs
    /\ resp.response.text.new_commits # <<>>
    /\ resp.response.text.containers.current # <<>>

(***************************************************************************)
(* prd-update.ts: prdUpdateTool.handler. The bare repo has one branch,     *)
(* main, which HEAD names; shared.commits[k] is the prd.json of its k-th   *)
(* commit and the last one is the tip. Each caller makes one call, and the *)
(* calls interleave at their reads of and writes to the bare repo.         *)
(***************************************************************************)
Callers == {"a", "b"}

UpdateIds == {"US-1", "US-2"}

\* story of the arguments: content tells whether title, description and
\* acceptanceCriteria are given; an edit sets verified to true.
UpdateArgs ==
    [action : {"add_story"}, id : UpdateIds, content : BOOLEAN]
    \cup [action : {"edit_story", "remove_story"}, id : UpdateIds,
          content : {FALSE}]

\* prd.json at a commit: not there, or there with its text.
NoFile == [exists |-> FALSE]
FileOf(text) == [exists |-> TRUE, text |-> text]

\* What the first commit of the bare repo may hold.
HeadFiles ==
    {NoFile, FileOf(NotJson), FileOf(Json(ObjectNoStories)),
     FileOf(Json(Prd(<<FreshStory("US-1", 1, "false")>>)))}

\* stderr of the failing git commands and the messages of thrown errors.
ReadDiag == "fatal: path 'prd.json' does not exist in 'HEAD'"
ParseDiag == "SyntaxError: Unexpected token in JSON"
CloneDiag == "fatal: could not create work tree dir"
WriteDiag == "Permission denied (os error 13)"
CommitDiag == "fatal: unable to auto-detect email address"
NothingToCommit == "nothing to commit, working tree clean"
PushDiag == "remote: error: hook declined"
PushStaleDiag == "! [rejected] HEAD -> main (fetch first)"

\* Results of the handler. An error object has a stderr field or not
\* ("absent"); a thrown error reaches the caller through registerTool.
NoResult == [kind |-> "none"]
ErrorResult(error, stderr) ==
    [kind |-> "error", isError |-> FALSE, error |-> error, stderr |-> stderr]
ThrownResult(message) ==
    [kind |-> "error", isError |-> TRUE, error |-> message, stderr |-> "absent"]
SuccessResult(args, message, prd) ==
    [kind |-> "success", isError |-> FALSE, action |-> args.action,
     story_id |-> args.id, commit_message |-> message,
     total_stories |-> Len(prd.userStories)]

\* Math.max(0, ...prd.userStories.map((s) => s.priority))
RECURSIVE MaxPriority(_)
MaxPriority(stories) ==
    IF stories = <<>> THEN 0
    ELSE LET rest == MaxPriority(Tail(stories))
         IN  IF Head(stories).priority > rest THEN Head(stories).priority
             ELSE rest

\* findIndex((s) => s.id === story.id): 0 stands for -1.
FindIndex(stories, id) ==
    IF HasStory(stories, id)
    THEN CHOOSE i \in 1..Len(stories) :
            stories[i].id = id /\ \A j \in 1..(i - 1) : stories[j].id # id
    ELSE 0

\* A splice that removes the story and all that follow it.
SpliceToEnd(stories, idx) == SubSeq(stories, 1, idx - 1)

\* splice(idx, 1)
Splice(stories, idx) ==
    SubSeq(stories, 1, idx - 1) \o SubSeq(stories, idx + 1, Len(stories))

Rejected(error) == [outcome |-> "rejected", error |-> error]
Accepted(prd, message) == [outcome |-> "accepted", prd |-> prd, message |-> message]
TypeError == [outcome |-> "thrown", error |-> "TypeError"]

\* An add_story that does not look for the id among the stories.
ApplyUpdateUnchecked(prd, args) ==
    IF ~IsPrd(prd) THEN TypeError
    ELSE Accepted(Prd(Append(prd.userStories,
                             FreshStory(args.id, MaxPriority(prd.userStories) + 1, "false"))),
                  "[mcp] Add story " \o args.id)

\* An update that gives the first story the identifier of the request.
ApplyUpdateRenaming(prd, args) ==
    IF ~IsPrd(prd) THEN TypeError
    ELSE IF prd.userStories = <<>> THEN Rejected("Story " \o args.id \o " not found")
    ELSE Accepted(Prd([prd.userStories EXCEPT ![1].id = args.id, ![1].verified = "true"]),
                  "[mcp] Edit story " \o args.id)

\* The switch on action, applied to the parsed document in memory.
ApplyUpdate(prd, args) ==
    IF args.action = "add_story"
    THEN IF ~args.content
         THEN Rejected("add_story requires title, description, and acceptanceCriteria")
         ELSE IF ~IsPrd(prd) THEN TypeError
         ELSE IF HasStory(prd.userStories, args.id)
         THEN Rejected("Story " \o args.id \o " already exists")
         ELSE Accepted(
                Prd(Append(prd.userStories,
                           FreshStory(args.id, MaxPriority(prd.userStories) + 1,
                                      "false"))),
                "[mcp] Add story " \o args.id \o ": " \o TitleOf(args.id))
    ELSE IF ~IsPrd(prd) THEN TypeError
    ELSE LET idx == FindIndex(prd.userStories, args.id)
         IN  IF idx = 0 THEN Rejected("Story " \o args.id \o " not found")
             ELSE IF args.action = "edit_story"
             THEN Accepted(
                    Prd([prd.userStories EXCEPT ![idx].verified = "true"]),
                    "[mcp] Edit story " \o args.id \o ": update verified")
             ELSE Accepted(
                    Prd(Splice(prd.userStories, idx)),
                    "[mcp] Remove story " \o args.id \o ": "
                        \o prd.userStories[idx].title)

\* A call that has not started. seen is the prd.json the call read, failed
\* the step that failed and diag the diagnostic of the failing operation.
IdleCall ==
    [pc |-> "idle", args |-> [action |-> "none"], seen |-> NoFile,
     prd |-> NullPrd, message |-> "", cloneTip |-> 0, failed |-> "none",
     diag |-> "", pushed |-> FALSE, result |-> NoResult]

InitUpdate ==
    /\ shared \in {[exists |-> FALSE, commits |-> <<>>]}
                  \cup {[exists |-> TRUE, commits |-> <<f>>] : f \in HeadFiles}
    /\ calls = [c \in Callers |-> IdleCall]
    /\ LedgerIdle
    /\ RepoIdle
    /\ DeltaIdle
    /\ SessionIdle

\* The call ends at a step with a result.
Ends(call, step, diag, result) ==
    [call EXCEPT !.pc = "done", !.failed = step, !.diag = diag,
                 !.result = result]

\* A caller invokes ralph_prd_update.
UpdateCall(c) ==
    /\ calls[c].pc = "idle"
    /\ \E args \in UpdateArgs :
          calls' = [calls EXCEPT ![c] = [@ EXCEPT !.pc = "read", !.args = args]]
    /\ UNCHANGED <<shared, ledgerVars, repoVars, deltaVars, sessionVars>>

\* Deno.stat of the bare repo, git show HEAD:prd.json, JSON.parse and the
\* switch on action: the call sees the tip as it is now.
ReadBase(c) ==
    /\ calls[c].pc = "read"
    /\ LET call == calls[c]
           file == shared.commits[Len(shared.commits)]
           parsed == JsonParse(file.text)
           update == ApplyUpdate(parsed.value, call.args)
       IN  calls' = [calls EXCEPT ![c] =
             IF ~shared.exists
             THEN Ends(call, "stat", "",
                       ErrorResult("No bare repo found at .ralph/repo.git", "absent"))
             ELSE IF ~file.exists
             THEN Ends([call EXCEPT !.seen = file], "read", ReadDiag,
                       ErrorResult("Failed to read prd.json from bare repo", ReadDiag))
             ELSE IF parsed.threw
             THEN Ends([call EXCEPT !.seen = file], "parse", ParseDiag,
                       ErrorResult("Failed to parse prd.json", "absent"))
             ELSE IF update.outcome = "thrown"
             THEN Ends([call EXCEPT !.seen = file], "apply", update.error,
                       ThrownResult(update.error))
             ELSE IF update.outcome = "rejected"
             THEN Ends([call EXCEPT !.seen = file], "rejected", "",
                       ErrorResult(update.error, "absent"))
             ELSE [call EXCEPT !.pc = "clone", !.seen = file,
                               !.prd = update.prd, !.message = update.message]]
    /\ UNCHANGED <<shared, ledgerVars, repoVars, deltaVars, sessionVars>>

\* git clone --branch main into the temporary directory: the work tree is
\* the tip as it is now.
GitClone(c) ==
    /\ calls[c].pc = "clone"
    /\ \E ok \in BOOLEAN :
          calls' = [calls EXCEPT ![c] =
             IF ok
             THEN [@ EXCEPT !.pc = "write", !.cloneTip = Len(shared.commits)]
             ELSE Ends(@, "clone", CloneDiag,
                       ErrorResult("Failed to clone bare repo for update", CloneDiag))]
    /\ UNCHANGED <<shared, ledgerVars, repoVars, deltaVars, sessionVars>>

\* Deno.writeTextFile of the modified document over prd.json of the work
\* tree; it throws when the file cannot be written.
WriteFile(c) ==
    /\ calls[c].pc = "write"
    /\ \E ok \in BOOLEAN :
          calls' = [calls EXCEPT ![c] =
             IF ok THEN [@ EXCEPT !.pc = "commit"]
             ELSE Ends(@, "write", WriteDiag, ThrownResult(WriteDiag))]
    /\ UNCHANGED <<shared, ledgerVars, repoVars, deltaVars, sessionVars>>

\* git add prd.json and git commit: git commits nothing, and says so on
\* stdout, when the file written is the file of the cloned tip.
GitCommit(c) ==
    /\ calls[c].pc = "commit"
    /\ \E ok \in BOOLEAN :
          calls' = [calls EXCEPT ![c] =
             IF FileOf(Json(@.prd)) = shared.commits[@.cloneTip]
             THEN Ends(@, "commit", NothingToCommit,
                       ErrorResult("Failed to commit prd.json update", ""))
             ELSE IF ok THEN [@ EXCEPT !.pc = "push"]
             ELSE Ends(@, "commit", CommitDiag,
                       ErrorResult("Failed to commit prd.json update", CommitDiag))]
    /\ UNCHANGED <<shared, ledgerVars, repoVars, deltaVars, sessionVars>>

\* git push origin HEAD: rejected when the tip is no longer the cloned one.
GitPush(c) ==
    /\ calls[c].pc = "push"
    /\ \E ok \in BOOLEAN :
          LET call == calls[c]
          IN  IF Len(shared.commits) # call.cloneTip
              THEN /\ calls' = [calls EXCEPT ![c] =
                         Ends(call, "push", PushStaleDiag,
                              ErrorResult("Failed to push update to bare repo",
                                          PushStaleDiag))]
                   /\ UNCHANGED shared
              ELSE IF ok
              THEN /\ shared' = [shared EXCEPT !.commits =
                                    Append(@, FileOf(Json(call.prd)))]
                   /\ calls' = [calls EXCEPT ![c] =
                         [call EXCEPT !.pc = "done", !.pushed = TRUE,
                                      !.result = SuccessResult(call.args,
                                                   call.message, call.prd)]]
              ELSE /\ calls' = [calls EXCEPT ![c] =
                         Ends(call, "push", PushDiag,
                              ErrorResult("Failed to push update to bare repo",
                                          PushDiag))]
                   /\ UNCHANGED shared
    /\ UNCHANGED <<ledgerVars, repoVars, deltaVars, sessionVars>>

NextUpdate ==
    \E c \in Callers :
        \/ UpdateCall(c)
        \/ ReadBase(c)
        \/ GitClone(c)
        \/ WriteFile(c)
        \/ GitCommit(c)
        \/ GitPush(c)

SpecUpdate == InitUpdate /\ [][NextUpdate]_vars

(***************************************************************************)
(* The mutation path: what reaches the shared ledger and what the caller   *)
(* is told.                                                                *)
(***************************************************************************)
\* The calls that have returned.
Done == {c \in Callers : calls[c].pc = "done"}

\* The call had to be refused: no bare repo, no prd.json at HEAD, a prd.json
\* that is no ledger, or an action the ledger it read does not allow.
MustRefuse(call) ==
    \/ ~shared.exists
    \/ ~call.seen.exists
    \/ ~call.seen.text.json
    \/ call.args.action = "add_story" /\ ~call.args.content
    \/ ~IsPrd(call.seen.text.value)
    \/ call.args.action = "add_story"
          /\ HasStory(call.seen.text.value.userStories, call.args.id)
    \/ call.args.action \in {"edit_story", "remove_story"}
          /\ ~HasStory(call.seen.text.value.userStories, call.args.id)

\* C18: a call that had to be refused returns an error and pushes nothing;
\* a call pushes exactly when it returns success; and every commit the bare
\* repo gained is the complete modified ledger of a call that returned
\* success.
C18_NoPartialWrite ==
    /\ \A c \in Done :
          /\ calls[c].result.kind = "success" <=> calls[c].pushed
          /\ MustRefuse(calls[c]) =>
                calls[c].result.kind = "error" /\ ~calls[c].pushed
    /\ \A c \in Callers \ Done : ~calls[c].pushed
    /\ Len(shared.commits) =
          (IF shared.exists THEN 1 ELSE 0)
            + Cardinality({c \in Callers : calls[c].pushed})
    /\ \A k \in 2..Len(shared.commits) :
          \E c \in Done :
              /\ calls[c].result.kind = "success"
              /\ IsPrd(calls[c].prd)
              /\ shared.commits[k] = FileOf(Json(calls[c].prd))

\* One call was refused because the story exists, after the other call had
\* added it; the bare repo gained the one commit.
C18_Witness ==
    /\ Done = Callers
    /\ \E c \in Callers :
          /\ calls[c].failed = "rejected"
          /\ calls[c].args.action = "add_story"
          /\ calls[c].args.content
          /\ calls[c].result.kind = "error"
    /\ \E c \in Callers : calls[c].result.kind = "success"
    /\ Len(shared.commits) = 2

\* The step an error result names.
StepNamedBy(result) ==
    CASE result.error = "Failed to read prd.json from bare repo" -> "read"
      [] result.error = "Failed to parse prd.json" -> "parse"
      [] result.error = "Failed to clone bare repo for update" -> "clone"
      [] result.error = WriteDiag -> "write"
      [] result.error = "Failed to commit prd.json update" -> "commit"
      [] result.error = "Failed to push update to bare repo" -> "push"
      [] OTHER -> "none"

\* C19: a call that failed at read, parse, clone, write, commit or push
\* returns an error that names that step and carries the diagnostic text of
\* the operation that failed; it does not return success.
C19_StepAndDiagnostic ==
    \A c \in Done :
        calls[c].failed \in {"read", "parse", "clone", "write", "commit", "push"}
        => /\ calls[c].result.kind = "error"
           /\ StepNamedBy(calls[c].result) = calls[c].failed
           /\ calls[c].diag \in {calls[c].result.error, calls[c].result.stderr}

\* The modification of a call is in the stories.
Present(args, stories) ==
    IF args.action = "add_story" THEN HasStory(stories, args.id)
    ELSE IF args.action = "remove_story" THEN ~HasStory(stories, args.id)
    ELSE /\ HasStory(stories, args.id)
         /\ StoryWithId(stories, args.id).verified = "true"

\* The ledger at the tip of the bare repo.
TipStories == shared.commits[Len(shared.commits)].text.value.userStories

\* C20: when both calls have returned success, for modifications of
\* different stories, both modifications are in the ledger at the tip: a
\* call whose base the other made stale fails at its push.
C20_NoLostUpdate ==
    (/\ Done = Callers
     /\ \A c \in Callers : calls[c].result.kind = "success"
     /\ calls["a"].args.id # calls["b"].args.id)
    => \A c \in Callers : Present(calls[c].args, TipStories)

(***************************************************************************)
(* The worker runtime.                                                     *)
(***************************************************************************)
\* Nothing but docker stands in the way of the ralph_status call: a git log
\* could be started and the ledger it reads is a ledger or none.
StatusElseFine(call) ==
    /\ ~(call.env.gitLog.threw /\ call.env.gitLogWork.threw)
    /\ ~DocTruthy(readPrd(call.env)) \/ IsPrd(readPrd(call.env))

\* C21: when docker ps exits unsuccessfully or cannot be started, a
\* ralph_changes call and a ralph_status call that nothing else stands in
\* the way of return their result with an empty container list, and
\* ralph_changes with an empty likely_new; neither returns an error.
C21_NoRuntimeIsEmptyList ==
    /\ (/\ resp.tool = "changes"
        /\ LookupFailed(resp.env.docker)
        /\ Resolved(resp)
        /\ ~Malformed(resp.env.sinceDoc)
        /\ ~Malformed(resp.env.headDoc)
        /\ LogsReadable(resp))
       => /\ ~resp.response.isError
          /\ resp.response.text.containers.current = <<>>
          /\ resp.response.text.containers.likely_new = <<>>
    /\ (/\ resp.tool = "status"
        /\ LookupFailed(resp.env.docker)
        /\ StatusElseFine(resp))
       => /\ ~resp.response.isError
          /\ resp.response.text.containers = <<>>

(***************************************************************************)
(* Identifiers of the stories.                                             *)
(***************************************************************************)
\* The identifiers of the stories, in their order.
IdSeq(stories) == [i \in 1..Len(stories) |-> stories[i].id]

\* No two stories have the same identifier.
DistinctIds(stories) == Cardinality(IdsOf(stories)) = Len(stories)

\* The file is a ledger.
IsLedgerFile(file) ==
    file.exists /\ file.text.json /\ IsPrd(file.text.value)

\* C22: every ledger the bare repo holds has pairwise distinct story
\* identifiers; an add_story whose identifier is in the ledger it read is
\* rejected with an error; and the ledger of a successful edit_story has the
\* identifiers of the ledger it read, in the same order.
C22_UniqueIds ==
    /\ \A k \in 1..Len(shared.commits) :
          IsLedgerFile(shared.commits[k]) =>
              DistinctIds(shared.commits[k].text.value.userStories)
    /\ \A c \in Done :
          /\ (/\ calls[c].args.action = "add_story"
              /\ calls[c].args.content
              /\ IsLedgerFile(calls[c].seen)
              /\ HasStory(calls[c].seen.text.value.userStories, calls[c].args.id))
             => calls[c].result.kind = "error" /\ calls[c].failed = "rejected"
          /\ (/\ calls[c].args.action = "edit_story"
              /\ calls[c].result.kind = "success")
             => IdSeq(calls[c].prd.userStories)
                  = IdSeq(calls[c].seen.text.value.userStories)

\* An add_story and then an edit_story succeeded: the ledger at the tip has
\* two stories.
C22_Witness ==
    /\ Done = Callers
    /\ \A c \in Callers : calls[c].result.kind = "success"
    /\ \E c \in Callers : calls[c].args.action = "add_story"
    /\ \E c \in Callers : calls[c].args.action = "edit_story"
    /\ Len(shared.commits) = 3
    /\ Len(TipStories) = 2

(***************************************************************************)
(* One editor and the workers. The bare repo has the branch main, which    *)
(* HEAD names, and a working branch the workers push to. The editor calls  *)
(* ralph_prd_read and ralph_status, then ralph_prd_update, then reads      *)
(* again; no worker pushes once the editor has read.                       *)
(***************************************************************************)
\* The ledgers main may hold at first.
SeedLedgers ==
    {Prd(<<FreshStory("US-1", 1, "false")>>),
     Prd(<<BuiltStory>>),
     Prd(<<[FreshStory("US-1", 1, "false") EXCEPT !.passes = TRUE]>>),
     Prd(<<[FreshStory("US-3", 1, "undefined") EXCEPT !.passes = TRUE],
           FreshStory("US-1", 2, "undefined")>>),
     Prd(<<[FreshStory("US-1", 1, "false") EXCEPT !.claimed_by = "agent-1"],
           FreshStory("US-2", 2, "false")>>)}

\* A branch that does not exist.
NoBranch == [file |-> NoFile, at |-> 0]

IdleSession ==
    [pc |-> "start", args |-> [action |-> "none"], seen |-> NoFile,
     result |-> NoResult,
     before |-> NullPrd, statusBefore |-> EmptyBoard,
     readBefore |-> PrdReadResult(NullPrd),
     after |-> NullPrd, statusAfter |-> EmptyBoard,
     readAfter |-> PrdReadResult(NullPrd)]

InitSession ==
    /\ \E prd \in SeedLedgers :
          heads = [main |-> [file |-> FileOf(Json(prd)), at |-> 1],
                   work |-> NoBranch]
    /\ session = IdleSession
    /\ LedgerIdle
    /\ RepoIdle
    /\ DeltaIdle
    /\ UpdateIdle

\* The time of the last commit of the bare repo.
Clock == IF heads.work.at > heads.main.at THEN heads.work.at ELSE heads.main.at

\* A worker claims a story or completes it in its checkout of the working
\* branch, which starts at main, and pushes the commit to the working
\* branch.
WorkerPush ==
    /\ session.pc = "start"
    /\ Clock <= MaxPushes
    /\ LET base == IF heads.work.at = 0 THEN heads.main.file ELSE heads.work.file
           stories == base.text.value.userStories
       IN  \E i \in 1..Len(stories), move \in {"claim", "complete"} :
             /\ ~stories[i].passes
             /\ move = "claim" => stories[i].claimed_by = "null"
             /\ heads' = [heads EXCEPT !.work =
                   [file |-> FileOf(Json(Prd(
                        IF move = "claim"
                        THEN [stories EXCEPT ![i].claimed_by = "agent-2"]
                        ELSE [stories EXCEPT ![i].passes = TRUE]))),
                    at |-> Clock + 1]]
    /\ UNCHANGED <<session, ledgerVars, repoVars, deltaVars, updateVars>>

\* The tip that git log --all -1 -- prd.json names: the latest commit of any
\* branch; every commit of the model touches prd.json.
LatestHead == IF heads.work.at > heads.main.at THEN heads.work ELSE heads.main

HashAt(at) == "c" \o ToString(at)

\* What readPrd finds in the bare repo as it is; the project directory has
\* no prd.json of its own.
SessionReadEnv ==
    [repoExists |-> TRUE,
     resolveRef |-> ExecOk(HashAt(LatestHead.at)),
     show |-> IF LatestHead.file.exists THEN ExecOk(LatestHead.file.text)
              ELSE ExecFailed,
     workFile |-> NoFile]

\* The editor calls ralph_prd_read and ralph_status.
ReadBefore ==
    /\ session.pc = "start"
    /\ session' = [session EXCEPT
          !.pc = "read",
          !.before = readPrd(SessionReadEnv),
          !.statusBefore = StatusStories(readPrd(SessionReadEnv)),
          !.readBefore = PrdReadResult(readPrd(SessionReadEnv))]
    /\ UNCHANGED <<heads, ledgerVars, repoVars, deltaVars, updateVars>>

\* The step of the handler that fails for a reason outside the ledger.
Faults == {"none", "clone", "write", "commit", "push"}

FaultResult(fault) ==
    IF fault = "clone"
    THEN ErrorResult("Failed to clone bare repo for update", CloneDiag)
    ELSE IF fault = "write" THEN ThrownResult(WriteDiag)
    ELSE IF fault = "commit"
    THEN ErrorResult("Failed to commit prd.json update", CommitDiag)
    ELSE ErrorResult("Failed to push update to bare repo", PushDiag)

\* prdUpdateTool.handler from its first line to its last, with no other
\* writer: it reads HEAD:prd.json, clones the branch HEAD names and pushes
\* to it.
UpdateAlone ==
    /\ session.pc = "read"
    /\ \E args \in UpdateArgs, fault \in Faults :
        LET file == heads.main.file
            parsed == JsonParse(file.text)
            update == ApplyUpdate(parsed.value, args)
            started == [session EXCEPT !.pc = "updated", !.args = args,
                                       !.seen = file]
        IN  IF ~file.exists
            THEN /\ session' = [started EXCEPT !.result =
                       ErrorResult("Failed to read prd.json from bare repo", ReadDiag)]
                 /\ UNCHANGED heads
            ELSE IF parsed.threw
            THEN /\ session' = [started EXCEPT !.result =
                       ErrorResult("Failed to parse prd.json", "absent")]
                 /\ UNCHANGED heads
            ELSE IF update.outcome = "thrown"
            THEN /\ session' = [started EXCEPT !.result = ThrownResult(update.error)]
                 /\ UNCHANGED heads
            ELSE IF update.outcome = "rejected"
            THEN /\ session' = [started EXCEPT !.result =
                       ErrorResult(update.error, "absent")]
                 /\ UNCHANGED heads
            ELSE IF fault \in {"clone", "write"}
            THEN /\ session' = [started EXCEPT !.result = FaultResult(fault)]
                 /\ UNCHANGED heads
            ELSE IF FileOf(Json(update.prd)) = file
            THEN /\ session' = [started EXCEPT !.result =
                       ErrorResult("Failed to commit prd.json update", "")]
                 /\ UNCHANGED heads
            ELSE IF fault # "none"
            THEN /\ session' = [started EXCEPT !.result = FaultResult(fault)]
                 /\ UNCHANGED heads
            ELSE /\ session' = [started EXCEPT !.result =
                       SuccessResult(args, update.message, update.prd)]
                 /\ heads' = [heads EXCEPT !.main =
                       [file |-> FileOf(Json(update.prd)), at |-> Clock + 1]]
    /\ UNCHANGED <<ledgerVars, repoVars, deltaVars, updateVars>>

\* The editor calls ralph_prd_read and ralph_status again.
ReadAfter ==
    /\ session.pc = "updated"
    /\ session' = [session EXCEPT
          !.pc = "reread",
          !.after = readPrd(SessionReadEnv),
          !.statusAfter = StatusStories(readPrd(SessionReadEnv)),
          !.readAfter = PrdReadResult(readPrd(SessionReadEnv))]
    /\ UNCHANGED <<heads, ledgerVars, repoVars, deltaVars, updateVars>>

NextSession ==
    \/ WorkerPush
    \/ ReadBefore
    \/ UpdateAlone
    \/ ReadAfter

SpecSession == InitSession /\ [][NextSession]_vars

(***************************************************************************)
(* The editor's reads around an update.                                    *)
(***************************************************************************)
\* The editor has read again after an update that returned success.
Reread == session.pc = "reread" /\ session.result.kind = "success"

\* C23: with no writer but the editor, the ledger ralph_prd_read returns
\* after a successful ralph_prd_update is the ledger it returned before the
\* update with the requested modification applied, also when the working
\* branch is ahead of the branch HEAD names.
C23_ReadWriteConsistency ==
    Reread =>
        /\ IsPrd(session.before)
        /\ ApplyUpdate(session.before, session.args).outcome = "accepted"
        /\ session.after = ApplyUpdate(session.before, session.args).prd

\* The update read the ledger that the editor had read.
SameSnapshot ==
    /\ session.seen.exists
    /\ session.before = session.seen.text.value

\* C24: after a successful add_story, ralph_status and ralph_prd_read
\* report every story that was in the ledger before the call in the status
\* group they reported it in before the call.
C24_AddKeepsStatus ==
    (Reread /\ SameSnapshot /\ session.args.action = "add_story") =>
        \A id \in IdsOf(session.before.userStories) :
            /\ GroupsOf(session.statusAfter, id) = GroupsOf(session.statusBefore, id)
            /\ GroupsOf(session.readAfter.stories, id)
                   = GroupsOf(session.readBefore.stories, id)

\* The stories the update read and the stories it pushed.
StoriesRead == session.seen.text.value.userStories
StoriesPushed == heads.main.file.text.value.userStories

\* The fields of a story that the edit of the model does not supply.
KeptFields == {"id", "title", "priority", "passes", "claimed_by"}

OtherThan(stories, id) ==
    LET Other(s) == s.id # id
    IN  SelectSeq(stories, Other)

\* C25: a successful edit_story changes the supplied field of the story
\* with the identifier, keeps its other fields and its position and keeps
\* every other story; a successful remove_story removes that story alone
\* and keeps the others in their order; a successful add_story appends the
\* story with passes false and no claimant and keeps the others.
C25_Frame ==
    session.result.kind = "success" =>
        LET id == session.args.id
        IN  IF session.args.action = "edit_story"
            THEN /\ Len(StoriesPushed) = Len(StoriesRead)
                 /\ HasStory(StoriesRead, id)
                 /\ \A i \in 1..Len(StoriesRead) :
                       IF StoriesRead[i].id = id
                       THEN /\ StoriesPushed[i].verified = "true"
                            /\ \A f \in KeptFields :
                                  StoriesPushed[i][f] = StoriesRead[i][f]
                       ELSE StoriesPushed[i] = StoriesRead[i]
            ELSE IF session.args.action = "remove_story"
            THEN /\ HasStory(StoriesRead, id)
                 /\ ~HasStory(StoriesPushed, id)
                 /\ StoriesPushed = OtherThan(StoriesRead, id)
                 /\ Len(StoriesPushed) = Len(StoriesRead) - 1
            ELSE /\ Len(StoriesPushed) = Len(StoriesRead) + 1
                 /\ SubSeq(StoriesPushed, 1, Len(StoriesRead)) = StoriesRead
                 /\ StoriesPushed[Len(StoriesPushed)].id = id
                 /\ ~StoriesPushed[Len(StoriesPushed)].passes
                 /\ StoriesPushed[Len(StoriesPushed)].claimed_by = "null"

\* The first of two stories has been removed.
C25_Witness ==
    /\ session.result.kind = "success"
    /\ session.args.action = "remove_story"
    /\ Len(StoriesRead) = 2
    /\ StoriesRead[1].id = session.args.id

====
